---- MODULE Spec2Model ----
(***************************************************************************)
(* Model of the heuristic classification pipeline of the repository:       *)
(*   analyze_docs.py          DocAnalyzer          (Documentation          *)
(*                                                  Classifier)            *)
(*   analyze_code_quality.py  CodeQualityAnalyzer  (Quality Indicator      *)
(*                                                  Scanner)               *)
(*                                                                         *)
(* A file is represented by what the analyzers' patterns find in it (match *)
(* lists, line numbers, counts).  The patterns whose exact matching        *)
(* behaviour matters (magic_number_pattern and the constant filter) are    *)
(* modelled on character sequences.  A character is a one-character        *)
(* string, a text is a tuple of characters.                                *)
(***************************************************************************)
EXTENDS Integers, Sequences, FiniteSets, TLC

(***************************************************************************)
(* Bounds of the model.                                                    *)
(***************************************************************************)
\* number of paths the directory walk of one run yields
MaxFiles == 6
\* SpecScore: declaration sites, tag occurrences, documentation / file chars
MaxItems == 10
MaxTag == 1
MaxDocChars == 2
MaxCodeChars == 11
\* SpecDoc: lines of a file, matches of each declaration pattern
MaxLines == 4
MaxMatches == 1
\* SpecMagic: length of the exhaustively enumerated texts
MaxLen == 7
\* SpecNesting: number of braces of a content
MaxBraces == 8
\* SpecComplexity: control-flow keywords and counted lines of a content
MaxKeywords == 21
MaxLoc == 1000
\* SpecOrder: number of files folded in two orders
MaxOrder == 3
\* SpecCover: number of lines of a content
MaxCoverLines == 13
\* SpecAge: number of characters of a content
MaxYearChars == 5

(***************************************************************************)
(* Generic helpers.                                                        *)
(***************************************************************************)
Range(s) == {s[i] : i \in DOMAIN s}

Take(s, n) == IF Len(s) <= n THEN s ELSE SubSeq(s, 1, n)

Min2(a, b) == IF a < b THEN a ELSE b

SeqsUpTo(S, n) == UNION {[1..k -> S] : k \in 0..n}

(***************************************************************************)
(* DocAnalyzer.analyze_file: documentation coverage of declaration sites.  *)
(* Lines are numbered from 0 as enumerate(lines) does.                     *)
(***************************************************************************)
\* analyze_docs.py:79, the list the callable names are filtered against
Stoplist == {"if", "while", "for", "switch", "return"}

\* analyze_docs.py:94-99: every line holding '/**' or '///' marks itself and
\* the lines up to i + 10 (exclusive), clipped at len(lines)
DocPositions(marker_lines, nlines) ==
    {j \in 0..(nlines - 1) :
        \E i \in marker_lines : i <= j /\ j < Min2(i + 10, nlines)}

\* analyze_docs.py:104 and :109, the test applied to one match
IsDocumented(line_num, doc_positions) ==
    \/ line_num \in doc_positions
    \/ (line_num - 1) \in doc_positions
    \/ (line_num - 2) \in doc_positions

\* analyze_docs.py:75, len(classes): every class_pattern match
CountClasses(f) == Len(f.class_matches)

\* analyze_docs.py:76-79: function_pattern matches whose name is not in the
\* stoplist
FilterFunctions(matches) == SelectSeq(matches, LAMBDA m : m.name \notin Stoplist)

CountFunctions(f) == Len(FilterFunctions(f.function_matches))

\* analyze_docs.py:102-105: finditer over class_pattern
DocumentedClasses(f) ==
    LET dp == DocPositions(f.marker_lines, f.nlines)
    IN  Cardinality({i \in DOMAIN f.class_matches :
                        IsDocumented(f.class_matches[i], dp)})

\* analyze_docs.py:107-110: finditer over function_pattern; every match of
\* the pattern is tested, the stoplist is not applied here
DocumentedFunctions(f) ==
    LET dp == DocPositions(f.marker_lines, f.nlines)
    IN  Cardinality({i \in DOMAIN f.function_matches :
                        IsDocumented(f.function_matches[i].line, dp)})

(***************************************************************************)
(* DocAnalyzer.analyze_file: score and category.                           *)
(* doc_ratio = documented_items / total_items is kept as the pair          *)
(* <<numerator, denominator>>; r > 0.7 is 10 * num > 7 * den.              *)
(***************************************************************************)
\* analyze_docs.py:125
DocRatio(documented_items, total_items) ==
    IF total_items > 0 THEN <<documented_items, total_items>> ELSE <<0, 1>>

RatioGt(r, tenths) == 10 * r[1] > tenths * r[2]

\* RatioBonus with the lowest threshold inclusive
RatioBonusInclusive(r) ==
    IF RatioGt(r, 7) THEN 30
    ELSE IF RatioGt(r, 4) THEN 15
    ELSE IF 10 * r[1] >= r[2] /\ r[1] > 0 THEN 5
    ELSE 0

\* analyze_docs.py:128-134
RatioBonus(r) ==
    IF RatioGt(r, 7) THEN 30
    ELSE IF RatioGt(r, 4) THEN 15
    ELSE IF RatioGt(r, 1) THEN 5
    ELSE 0

\* analyze_docs.py:145-148
DocCodeBonus(doc_chars, code_chars) ==
    IF code_chars > 0 /\ 10 * doc_chars > code_chars THEN 15 ELSE 0

\* analyze_docs.py:128-148
QualityScore(r, param_count, return_count, brief_count, doc_chars, code_chars) ==
    RatioBonus(r)
    + (IF param_count > 0 THEN 20 ELSE 0)
    + (IF return_count > 0 THEN 20 ELSE 0)
    + (IF brief_count > 0 THEN 15 ELSE 0)
    + DocCodeBonus(doc_chars, code_chars)

\* Categorize with the upper threshold exclusive
CategorizeStrict(quality_score) ==
    IF quality_score > 60 THEN "well_documented"
    ELSE IF quality_score >= 25 THEN "partially_documented"
    ELSE "poorly_documented"

\* analyze_docs.py:151-156
Categorize(quality_score) ==
    IF quality_score >= 60 THEN "well_documented"
    ELSE IF quality_score >= 25 THEN "partially_documented"
    ELSE "poorly_documented"

\* analyze_docs.py:65-173, the record analyze_file returns for a readable file
\* (file: the path of the file)
DocResult(path, f) ==
    LET classes == CountClasses(f)
        functions == CountFunctions(f)
        documented_classes == DocumentedClasses(f)
        documented_functions == DocumentedFunctions(f)
        total_items == classes + functions
        documented_items == documented_classes + documented_functions
        doc_ratio == DocRatio(documented_items, total_items)
        quality_score == QualityScore(doc_ratio, f.param_count, f.return_count,
                                      f.brief_count, f.doc_chars, f.code_chars)
    IN  [file |-> path,
         classes |-> classes,
         functions |-> functions,
         documented_classes |-> documented_classes,
         documented_functions |-> documented_functions,
         doc_blocks |-> f.doc_blocks,
         doc_lines |-> f.doc_lines,
         brief_count |-> f.brief_count,
         param_count |-> f.param_count,
         return_count |-> f.return_count,
         doc_ratio |-> doc_ratio,
         quality_score |-> quality_score,
         category |-> Categorize(quality_score),
         file_size |-> f.code_chars]

(***************************************************************************)
(* Paths.  A path is the tuple of its components (Path.parts).             *)
(***************************************************************************)
\* analyze_docs.py:289, the root the classifier is constructed with
DocRoot == <<"/", "home", "user", "geant4">>

\* CodeQualityAnalyzer(root_dir): the root is a constructor argument; the
\* script passes the classifier's root (analyze_code_quality.py:281)
ScanRoots == {DocRoot, <<"/", "srv", "geant4">>}

IsPrefix(p, q) == Len(p) <= Len(q) /\ SubSeq(q, 1, Len(p)) = p

\* Path.relative_to(root): defined when root is a prefix of the path,
\* raises ValueError otherwise
IsRelativeTo(path, root) == IsPrefix(root, path)

RelativeTo(path, root) == SubSeq(path, Len(root) + 1, Len(path))

\* analyze_docs.py:183
IsExcluded(path) == "externals" \in Range(path) \/ "examples" \in Range(path)

\* list.index('source'): the first position holding it
IndexOf(parts, x) == CHOOSE i \in DOMAIN parts : parts[i] = x /\ \A j \in 1..(i - 1) : parts[j] # x

\* analyze_docs.py:198-205
ModuleOf(parts) ==
    IF "source" \in Range(parts)
    THEN LET idx == IndexOf(parts, "source")
         IN  IF Len(parts) > idx THEN parts[idx + 1] ELSE "other"
    ELSE "other"

(***************************************************************************)
(* The kinds of file content the walk can meet.  Each kind gives what the  *)
(* patterns of both analyzers find in such a file:                         *)
(*   class_matches     line of every class_pattern match                   *)
(*   function_matches  line and captured name of every function_pattern    *)
(*                     match                                               *)
(*   marker_lines      lines holding a documentation-opening marker        *)
(*   magic_numbers     magic_number_pattern.findall(code_text)             *)
(*   braces            the '{' and '}' of the content, in order            *)
(***************************************************************************)
Txt1234 == <<"1", "2", "3", "4">>
Txt0xFF == <<"0", "x", "F", "F">>
Txt0xff == <<"0", "x", "f", "f">>
Txt0xFE == <<"0", "x", "F", "E">>
Txt0x00 == <<"0", "x", "0", "0">>
Txt100 == <<"1", "0", "0">>
Txt1000 == <<"1", "0", "0", "0">>
Txt3p14159 == <<"3", ".", "1", "4", "1", "5", "9">>

Open(n) == [i \in 1..n |-> "{"]
Close(n) == [i \in 1..n |-> "}"]

NoScanFacts ==
    [magic_numbers |-> <<>>, control_keywords |-> 0, lines_of_code |-> 1,
     years |-> <<>>, todos |-> 0, fixmes |-> 0, hacks |-> 0, deprecated |-> 0,
     long_funcs |-> 0, braces |-> <<>>]

\* "locked" stands for a path the classifier cannot read, "skipped" for a
\* path below an excluded directory
Kinds == {"well", "partial", "poorA", "poorC", "locked", "skipped"}

\* directory of the files of each kind, below the root
KindDir ==
    [well |-> <<"source", "geometry">>,
     partial |-> <<"source", "processes">>,
     poorA |-> <<"source">>,
     poorC |-> <<"include">>,
     locked |-> <<"source", "geometry">>,
     skipped |-> <<"source", "externals">>]

FileNames ==
    [well |-> <<"W1.hh", "W2.hh", "W3.hh", "W4.hh", "W5.hh", "W6.hh", "W7.hh", "W8.hh">>,
     partial |-> <<"P1.hh", "P2.hh", "P3.hh", "P4.hh", "P5.hh", "P6.hh", "P7.hh", "P8.hh">>,
     poorA |-> <<"A1.cc", "A2.cc", "A3.cc", "A4.cc", "A5.cc", "A6.cc", "A7.cc", "A8.cc">>,
     poorC |-> <<"C1.h", "C2.h", "C3.h", "C4.h", "C5.h", "C6.h", "C7.h", "C8.h">>,
     locked |-> <<"L1.cpp", "L2.cpp", "L3.cpp", "L4.cpp", "L5.cpp", "L6.cpp", "L7.cpp", "L8.cpp">>,
     skipped |-> <<"X1.hh", "X2.hh", "X3.hh", "X4.hh", "X5.hh", "X6.hh", "X7.hh", "X8.hh">>]

\* the k-th path of a kind the walk yields (rglob yields paths below root_dir)
PathOf(kind, k) == DocRoot \o KindDir[kind] \o <<FileNames[kind][k]>>

NoDocFacts ==
    [class_matches |-> <<>>, function_matches |-> <<>>,
     marker_lines |-> {}, nlines |-> 1,
     doc_blocks |-> 0, doc_lines |-> 0,
     brief_count |-> 0, param_count |-> 0, return_count |-> 0,
     doc_chars |-> 0, code_chars |-> 10,
     scan |-> NoScanFacts]

Facts ==
    [well |->
        \* one type, documented by a block directly above it; @param, @return
        [class_matches |-> <<1>>, function_matches |-> <<>>,
         marker_lines |-> {0}, nlines |-> 4,
         doc_blocks |-> 1, doc_lines |-> 0,
         brief_count |-> 0, param_count |-> 1, return_count |-> 1,
         doc_chars |-> 15, code_chars |-> 100,
         scan |-> [NoScanFacts EXCEPT !.deprecated = 1]],
     partial |->
        \* four callables, the first one documented; a @param tag: 5 + 20
        [class_matches |-> <<>>,
         function_matches |-> <<[line |-> 1, name |-> "Get"],
                                [line |-> 20, name |-> "Set"],
                                [line |-> 30, name |-> "Run"],
                                [line |-> 40, name |-> "End"]>>,
         marker_lines |-> {0}, nlines |-> 45,
         doc_blocks |-> 1, doc_lines |-> 0,
         brief_count |-> 0, param_count |-> 1, return_count |-> 0,
         doc_chars |-> 20, code_chars |-> 900,
         scan |-> [NoScanFacts EXCEPT !.magic_numbers =
                      <<Txt1234, Txt1234, Txt1234, Txt1234, Txt1234>>,
                   !.deprecated = 1, !.braces = Open(7) \o Close(7)]],
     poorA |->
        \* undocumented; magic numbers, deprecated marker, nesting 7, old year
        [class_matches |-> <<3>>,
         function_matches |-> <<[line |-> 10, name |-> "Run"],
                                [line |-> 12, name |-> "for"]>>,
         marker_lines |-> {}, nlines |-> 20,
         doc_blocks |-> 0, doc_lines |-> 0,
         brief_count |-> 0, param_count |-> 0, return_count |-> 0,
         doc_chars |-> 0, code_chars |-> 2000,
         scan |-> [magic_numbers |-> <<Txt1234, Txt0xFF, Txt0xFE, Txt100, Txt1234,
                                       Txt3p14159, Txt0xff, Txt1234>>,
                   control_keywords |-> 16, lines_of_code |-> 100,
                   years |-> <<2015, 1998>>, todos |-> 2, fixmes |-> 0, hacks |-> 1,
                   deprecated |-> 3, long_funcs |-> 1,
                   braces |-> Open(7) \o Close(7)]],
     poorC |->
        \* one line comment far from the declarations; @return only: 0 + 20;
        \* four literals left by the filter, nesting 6, no year
        [class_matches |-> <<30>>,
         function_matches |-> <<[line |-> 40, name |-> "Do"]>>,
         marker_lines |-> {2}, nlines |-> 45,
         doc_blocks |-> 0, doc_lines |-> 1,
         brief_count |-> 0, param_count |-> 0, return_count |-> 1,
         doc_chars |-> 12, code_chars |-> 1500,
         scan |-> [magic_numbers |-> <<Txt1234, Txt1234, Txt1000, Txt0x00, Txt1234,
                                       Txt1234>>,
                   control_keywords |-> 16, lines_of_code |-> 1000,
                   years |-> <<>>, todos |-> 0, fixmes |-> 1, hacks |-> 0,
                   deprecated |-> 1, long_funcs |-> 0,
                   braces |-> Open(2) \o Close(1) \o Open(5) \o Close(6)]],
     locked |-> NoDocFacts,
     skipped |-> NoDocFacts]

\* the kind of each file name
KindOfName ==
    [name \in UNION {Range(FileNames[kind]) : kind \in Kinds} |->
        CHOOSE kind \in Kinds : name \in Range(FileNames[kind])]

\* the kind of content behind a path of the walk
KindOfPath(path) == KindOfName[path[Len(path)]]

(***************************************************************************)
(* CodeQualityAnalyzer.analyze_file, one indicator family after the other. *)
(* Each step maps the analyzer's stats to [st, raised]: raised is TRUE     *)
(* when the step leaves analyze_file by an exception, st holding the       *)
(* updates made before it.                                                 *)
(***************************************************************************)
\* analyze_code_quality.py:96
ConventionalConstants == {Txt100, Txt1000, Txt0x00, Txt0xff}

FilterMagic(magic_numbers) ==
    SelectSeq(magic_numbers, LAMBDA m : m \notin ConventionalConstants)

\* analyze_code_quality.py:98, the number of literals a file must hold
MagicThreshold == 5

\* analyze_code_quality.py:103, :166, :193, the length at which a list is full
ExampleCap == 5

\* analyze_code_quality.py:189
NestingLimit == 6

\* analyze_code_quality.py:22-48
InitQStats ==
    [magic_numbers |-> [files_with_magic_numbers |-> 0, total_magic_numbers |-> 0],
     complexity |-> [very_complex |-> 0, complex |-> 0, moderate |-> 0, simple |-> 0],
     age_indicators |-> [very_old |-> 0, old |-> 0, recent |-> 0, modern |-> 0],
     code_smells |-> [todo_comments |-> 0, fixme_comments |-> 0, hack_comments |-> 0,
                      deprecated |-> 0, long_functions |-> 0, deep_nesting |-> 0],
     \* the keys analyze_file appends to
     examples |-> [magic_numbers |-> <<>>, deprecated |-> <<>>, deep_nesting |-> <<>>]]

\* analyze_code_quality.py:47, defaultdict(list): a key nothing was appended
\* to reads as the empty list
ExamplesOf(st, key) ==
    IF key \in DOMAIN st.examples THEN st.examples[key] ELSE <<>>

Ok(st) == [st |-> st, raised |-> FALSE]
Raise(st) == [st |-> st, raised |-> TRUE]

\* analyze_code_quality.py:96-108
MagicStep(st, path, root, scan) ==
    LET filtered_magic == FilterMagic(scan.magic_numbers)
        counted == [st EXCEPT
                      !.magic_numbers.files_with_magic_numbers = @ + 1,
                      !.magic_numbers.total_magic_numbers = @ + Len(filtered_magic)]
    IN  IF Len(filtered_magic) >= MagicThreshold
        THEN IF Len(st.examples.magic_numbers) < ExampleCap
             THEN IF IsRelativeTo(path, root)
                  THEN Ok([counted EXCEPT !.examples.magic_numbers =
                              Append(@, [file |-> RelativeTo(path, root),
                                         count |-> Len(filtered_magic),
                                         samples |-> Take(filtered_magic, 5)])])
                  ELSE Raise(counted)
             ELSE Ok(counted)
        ELSE Ok(st)

(***************************************************************************)
(* The two divisions of analyze_code_quality.py:118 are binary64           *)
(* divisions, each rounded to the nearest double (ties to even).  A        *)
(* natural number wider than the machine word is a sequence of limbs,      *)
(* least significant first, without a leading zero limb.                   *)
(***************************************************************************)
LimbBase == 32768
LimbBits == 15
\* bits of a binary64 significand below its leading bit
FractionBits == 52

RECURSIVE BigOf(_)
BigOf(n) == IF n = 0 THEN <<>> ELSE <<n % LimbBase>> \o BigOf(n \div LimbBase)

RECURSIVE BigMulSmall(_, _, _)
BigMulSmall(a, k, carry) ==
    IF a = <<>> THEN BigOf(carry)
    ELSE LET v == a[1] * k + carry
         IN  <<v % LimbBase>> \o BigMulSmall(Tail(a), k, v \div LimbBase)

\* a * 2^n
RECURSIVE BigShl(_, _)
BigShl(a, n) ==
    IF a = <<>> THEN <<>>
    ELSE IF n >= LimbBits THEN <<0>> \o BigShl(a, n - LimbBits)
    ELSE BigMulSmall(a, 2^n, 0)

RECURSIVE BigAdd(_, _, _)
BigAdd(a, b, carry) ==
    IF a = <<>> /\ b = <<>> THEN BigOf(carry)
    ELSE LET x == IF a = <<>> THEN 0 ELSE a[1]
             y == IF b = <<>> THEN 0 ELSE b[1]
             v == x + y + carry
         IN  <<v % LimbBase>>
             \o BigAdd(IF a = <<>> THEN a ELSE Tail(a),
                       IF b = <<>> THEN b ELSE Tail(b), v \div LimbBase)

BigLess(a, b) ==
    IF Len(a) # Len(b) THEN Len(a) < Len(b)
    ELSE \E i \in 1..Len(a) :
            /\ a[i] < b[i]
            /\ \A k \in (i + 1)..Len(a) : a[k] = b[k]

RECURSIVE BigTrim(_)
BigTrim(a) ==
    IF a # <<>> /\ a[Len(a)] = 0 THEN BigTrim(SubSeq(a, 1, Len(a) - 1)) ELSE a

\* quotient and remainder of the limbs 1..i of a, with rem carried in from above
RECURSIVE BigDivFrom(_, _, _, _)
BigDivFrom(a, i, rem, k) ==
    IF i = 0 THEN [q |-> <<>>, r |-> rem]
    ELSE LET v == rem * LimbBase + a[i]
             rest == BigDivFrom(a, i - 1, v % k, k)
         IN  [q |-> Append(rest.q, v \div k), r |-> rest.r]

BigDivSmall(a, k) ==
    LET d == BigDivFrom(a, Len(a), 0, k) IN [q |-> BigTrim(d.q), r |-> d.r]

RECURSIVE FloorLog2(_)
FloorLog2(n) == IF n < 2 THEN 0 ELSE 1 + FloorLog2(n \div 2)

\* int / int for n >= k > 0: the double m * 2^(j - FractionBits) nearest n / k
TrueDiv(n, k) ==
    LET j == FloorLog2(n \div k)
        d == BigDivSmall(BigShl(BigOf(n), FractionBits - j), k)
        up == \/ 2 * d.r > k
              \/ 2 * d.r = k /\ d.q[1] % 2 = 1
    IN  [m |-> IF up THEN BigAdd(d.q, <<1>>, 0) ELSE d.q, j |-> j]

\* int / float, then > t: the quotient rounds to a double above the integer
\* t exactly when it lies above the midpoint of t and the next double
FloatQuotientGt(n, d, t) ==
    LET h == FractionBits + 1 - FloorLog2(t)
    IN  BigLess(BigAdd(BigShl(BigMulSmall(d.m, t, 0), h), d.m, 0),
                BigShl(BigOf(n), FractionBits - d.j + h))

\* analyze_code_quality.py:114-125; complexity > t, with
\* complexity = control_keywords / max(lines_of_code / 100, 1)
ComplexityGt(control_keywords, lines_of_code, t) ==
    IF lines_of_code > 100
    THEN FloatQuotientGt(control_keywords, TrueDiv(lines_of_code, 100), t)
    ELSE control_keywords > t

ComplexityTier(control_keywords, lines_of_code) ==
    IF ComplexityGt(control_keywords, lines_of_code, 15) THEN "very_complex"
    ELSE IF ComplexityGt(control_keywords, lines_of_code, 10) THEN "complex"
    ELSE IF ComplexityGt(control_keywords, lines_of_code, 5) THEN "moderate"
    ELSE "simple"

ComplexityStep(st, scan) ==
    LET tier == ComplexityTier(scan.control_keywords, scan.lines_of_code)
    IN  [st EXCEPT !.complexity[tier] = @ + 1]

\* analyze_code_quality.py:131
MinOf(years) == CHOOSE y \in Range(years) : \A z \in Range(years) : y <= z

\* analyze_code_quality.py:134-143
AgeTier(oldest_year) ==
    IF oldest_year < 2010 THEN "very_old"
    ELSE IF oldest_year < 2016 THEN "old"
    ELSE IF oldest_year < 2021 THEN "recent"
    ELSE "modern"

\* analyze_code_quality.py:128-143
AgeStep(st, scan) ==
    IF scan.years # <<>>
    THEN [st EXCEPT !.age_indicators[AgeTier(MinOf(scan.years))] = @ + 1]
    ELSE st

\* analyze_code_quality.py:146-159 (a count of 0 adds 0)
CommentSmellStep(st, scan) ==
    [st EXCEPT !.code_smells.todo_comments = @ + scan.todos,
               !.code_smells.fixme_comments = @ + scan.fixmes,
               !.code_smells.hack_comments = @ + scan.hacks]

\* DeprecatedStep with the cap tested by <= instead of <
DeprecatedStepOffByOne(st, path, root, scan) ==
    LET counted == [st EXCEPT !.code_smells.deprecated = @ + 1]
    IN  IF scan.deprecated > 0
        THEN IF Len(st.examples.deprecated) <= ExampleCap
             THEN IF IsRelativeTo(path, root)
                  THEN Ok([counted EXCEPT !.examples.deprecated =
                              Append(@, [file |-> RelativeTo(path, root)])])
                  ELSE Raise(counted)
             ELSE Ok(counted)
        ELSE Ok(st)

\* analyze_code_quality.py:161-169
DeprecatedStep(st, path, root, scan) ==
    LET counted == [st EXCEPT !.code_smells.deprecated = @ + 1]
    IN  IF scan.deprecated > 0
        THEN IF Len(st.examples.deprecated) < ExampleCap
             THEN IF IsRelativeTo(path, root)
                  THEN Ok([counted EXCEPT !.examples.deprecated =
                              Append(@, [file |-> RelativeTo(path, root)])])
                  ELSE Raise(counted)
             ELSE Ok(counted)
        ELSE Ok(st)

\* analyze_code_quality.py:172-177
LongFunctionStep(st, scan) ==
    [st EXCEPT !.code_smells.long_functions = @ + scan.long_funcs]

\* analyze_code_quality.py:180-187: the running depth over the braces of the
\* content; [cur, max] after the first n braces
RECURSIVE NestingScan(_, _)
NestingScan(braces, n) ==
    IF n = 0 THEN [cur |-> 0, max |-> 0]
    ELSE LET p == NestingScan(braces, n - 1)
         IN  IF braces[n] = "{"
             THEN [cur |-> p.cur + 1,
                   max |-> IF p.cur + 1 > p.max THEN p.cur + 1 ELSE p.max]
             ELSE [cur |-> p.cur - 1, max |-> p.max]

MaxNesting(braces) == NestingScan(braces, Len(braces)).max

\* DeepNestingStep flagging a maximum equal to the limit
DeepNestingStepInclusive(st, path, root, scan) ==
    LET max_nesting == MaxNesting(scan.braces)
        counted == [st EXCEPT !.code_smells.deep_nesting = @ + 1]
    IN  IF max_nesting >= NestingLimit
        THEN IF Len(st.examples.deep_nesting) < ExampleCap
             THEN IF IsRelativeTo(path, root)
                  THEN Ok([counted EXCEPT !.examples.deep_nesting =
                              Append(@, [file |-> RelativeTo(path, root),
                                         depth |-> max_nesting])])
                  ELSE Raise(counted)
             ELSE Ok(counted)
        ELSE Ok(st)

\* analyze_code_quality.py:189-197
DeepNestingStep(st, path, root, scan) ==
    LET max_nesting == MaxNesting(scan.braces)
        counted == [st EXCEPT !.code_smells.deep_nesting = @ + 1]
    IN  IF max_nesting > NestingLimit
        THEN IF Len(st.examples.deep_nesting) < ExampleCap
             THEN IF IsRelativeTo(path, root)
                  THEN Ok([counted EXCEPT !.examples.deep_nesting =
                              Append(@, [file |-> RelativeTo(path, root),
                                         depth |-> max_nesting])])
                  ELSE Raise(counted)
             ELSE Ok(counted)
        ELSE Ok(st)

\* analyze_code_quality.py:70-199, for a file whose content was read
QAnalyzeFile(st, path, root, scan) ==
    LET m == MagicStep(st, path, root, scan)
    IN  IF m.raised THEN m
        ELSE LET s4 == CommentSmellStep(AgeStep(ComplexityStep(m.st, scan), scan), scan)
                 d == DeprecatedStep(s4, path, root, scan)
             IN  IF d.raised THEN d
                 ELSE DeepNestingStep(LongFunctionStep(d.st, scan), path, root, scan)

(***************************************************************************)
(* The two-pass pipeline.                                                  *)
(***************************************************************************)
VARIABLES
    directory,          \* argument of analyze_directory, as path components
    yielded,            \* per kind, the number of paths the walk has yielded
    dstats,             \* DocAnalyzer.stats
    pc,                 \* "classify", "saved", "scan", "done", "raised"
    qroot,              \* CodeQualityAnalyzer.root_dir
    poorly_doc_files,   \* the list analyze_from_json iterates over
    scanIdx,            \* position of analyze_from_json in that list
    qstats,             \* CodeQualityAnalyzer.stats
    scanned,            \* paths whose content CodeQualityAnalyzer.analyze_file read
    \* a per-file function applied to a drawn input
    fpc,                \* "off", "drawn", "applied"
    arg,                \* the input
    out                 \* the value the function returned

pipe == <<directory, yielded, dstats, pc, qroot, poorly_doc_files, scanIdx,
          qstats, scanned>>

pure == <<fpc, arg, out>>

vars == <<directory, yielded, dstats, pc, qroot, poorly_doc_files, scanIdx,
          qstats, scanned, fpc, arg, out>>

\* analyze_docs.py:32-41, the value a new module bucket starts with
NewModuleStats ==
    [files |-> 0, classes |-> 0, functions |-> 0, doc_classes |-> 0,
     doc_functions |-> 0, well_doc |-> 0, partial_doc |-> 0, poor_doc |-> 0]

\* analyze_docs.py:21-42
InitDStats ==
    [total_files |-> 0, total_classes |-> 0, total_functions |-> 0,
     documented_classes |-> 0, documented_functions |-> 0,
     files_by_category |-> [well_documented |-> <<>>,
                            partially_documented |-> <<>>,
                            poorly_documented |-> <<>>],
     module_stats |-> <<>>]

\* FoldModule leaving out the files that have no module of their own
FoldModuleSourceOnly(module_stats, mod, result) ==
    LET ms == IF mod \in DOMAIN module_stats THEN module_stats[mod] ELSE NewModuleStats
        counted == [ms EXCEPT !.files = @ + 1,
                              !.classes = @ + result.classes,
                              !.functions = @ + result.functions,
                              !.doc_classes = @ + result.documented_classes,
                              !.doc_functions = @ + result.documented_functions]
        folded == IF result.category = "well_documented"
                  THEN [counted EXCEPT !.well_doc = @ + 1]
                  ELSE IF result.category = "partially_documented"
                  THEN [counted EXCEPT !.partial_doc = @ + 1]
                  ELSE [counted EXCEPT !.poor_doc = @ + 1]
    IN  IF mod = "other" THEN module_stats
        ELSE [m \in DOMAIN module_stats \cup {mod} |->
                 IF m = mod THEN folded ELSE module_stats[m]]

\* analyze_docs.py:207-219
FoldModule(module_stats, mod, result) ==
    LET ms == IF mod \in DOMAIN module_stats THEN module_stats[mod] ELSE NewModuleStats
        counted == [ms EXCEPT !.files = @ + 1,
                              !.classes = @ + result.classes,
                              !.functions = @ + result.functions,
                              !.doc_classes = @ + result.documented_classes,
                              !.doc_functions = @ + result.documented_functions]
        folded == IF result.category = "well_documented"
                  THEN [counted EXCEPT !.well_doc = @ + 1]
                  ELSE IF result.category = "partially_documented"
                  THEN [counted EXCEPT !.partial_doc = @ + 1]
                  ELSE [counted EXCEPT !.poor_doc = @ + 1]
    IN  [m \in DOMAIN module_stats \cup {mod} |->
            IF m = mod THEN folded ELSE module_stats[m]]

\* FoldTotals without the count of the file
FoldTotalsUncounted(st, result) ==
    [st EXCEPT !.total_classes = @ + result.classes,
               !.total_functions = @ + result.functions,
               !.documented_classes = @ + result.documented_classes,
               !.documented_functions = @ + result.documented_functions,
               !.files_by_category[result.category] = Append(@, result)]

\* analyze_docs.py:188-195
FoldTotals(st, result) ==
    [st EXCEPT !.total_files = @ + 1,
               !.total_classes = @ + result.classes,
               !.total_functions = @ + result.functions,
               !.documented_classes = @ + result.documented_classes,
               !.documented_functions = @ + result.documented_functions,
               !.files_by_category[result.category] = Append(@, result)]

\* analyze_docs.py:187-219, the body of "if result:"
FoldResult(st, path, result) ==
    [FoldTotals(st, result) EXCEPT
        !.module_stats = FoldModule(@, ModuleOf(path), result)]

\* the number of paths the walk has yielded
Walked ==
    yielded["well"] + yielded["partial"] + yielded["poorA"] + yielded["poorC"]
    + yielded["locked"] + yielded["skipped"]

\* analyze_docs.py:177-181: the next path of the walk, a path below dir_path
\* that the walk has not yielded before
NextPath(kind) == PathOf(kind, yielded[kind] + 1)

CanYield(kind) ==
    /\ pc = "classify"
    /\ Walked < MaxFiles
    /\ IsPrefix(DocRoot \o directory, NextPath(kind))

Init ==
    /\ directory \in {<<>>, <<"source">>}
    /\ yielded = [k \in Kinds |-> 0]
    /\ dstats = InitDStats
    /\ pc = "classify"
    /\ qroot = <<>>
    /\ poorly_doc_files = <<>>
    /\ scanIdx = 0
    /\ qstats = InitQStats
    /\ scanned = <<>>
    /\ fpc = "off"
    /\ arg = <<>>
    /\ out = <<>>

\* analyze_docs.py:183-184: a path below externals or examples is passed over
WalkExcluded ==
    \E kind \in Kinds :
        /\ CanYield(kind)
        /\ IsExcluded(NextPath(kind))
        /\ yielded' = [yielded EXCEPT ![kind] = @ + 1]
        /\ UNCHANGED <<directory, dstats, pc, qroot, poorly_doc_files, scanIdx,
                       qstats, scanned>>
        /\ UNCHANGED pure

\* open() succeeds on the path (analyze_docs.py:68)
IsReadable(kind) == kind # "locked"

\* analyze_docs.py:67-72, 186-187: the read fails, analyze_file returns None
ClassifyUnreadable ==
    \E kind \in Kinds :
        /\ CanYield(kind)
        /\ ~IsExcluded(NextPath(kind))
        /\ ~IsReadable(kind)
        /\ yielded' = [yielded EXCEPT ![kind] = @ + 1]
        /\ UNCHANGED <<directory, dstats, pc, qroot, poorly_doc_files, scanIdx,
                       qstats, scanned>>
        /\ UNCHANGED pure

\* analyze_docs.py:186-219: the file is read, analysed and folded
ClassifyFile ==
    \E kind \in Kinds :
        /\ CanYield(kind)
        /\ ~IsExcluded(NextPath(kind))
        /\ IsReadable(kind)
        /\ dstats' = FoldResult(dstats, NextPath(kind),
                                DocResult(NextPath(kind), Facts[kind]))
        /\ yielded' = [yielded EXCEPT ![kind] = @ + 1]
        /\ UNCHANGED <<directory, pc, qroot, poorly_doc_files, scanIdx,
                       qstats, scanned>>
        /\ UNCHANGED pure

\* analyze_docs.py:294-299: the walk is over, the stats are written out
SaveResults ==
    /\ pc = "classify"
    /\ pc' = "saved"
    /\ UNCHANGED <<directory, yielded, dstats, qroot, poorly_doc_files, scanIdx,
                   qstats, scanned>>
    /\ UNCHANGED pure

\* PoorlyDocFiles reading the partially documented partition as well
PoorlyAndPartialDocFiles(data) ==
    data.files_by_category.partially_documented
    \o data.files_by_category.poorly_documented

\* analyze_code_quality.py:206
PoorlyDocFiles(data) == data.files_by_category.poorly_documented

\* analyze_code_quality.py:20-21, 203-206: the scanner is constructed with its
\* root and loads the list of the first pass
LoadResults ==
    /\ pc = "saved"
    /\ \E root \in ScanRoots : qroot' = root
    /\ poorly_doc_files' = PoorlyDocFiles(dstats)
    /\ scanIdx' = 1
    /\ pc' = "scan"
    /\ UNCHANGED <<directory, yielded, dstats, qstats, scanned>>
    /\ UNCHANGED pure

Scanning == pc = "scan" /\ scanIdx <= Len(poorly_doc_files)

\* analyze_code_quality.py:215
CurrentPath == poorly_doc_files[scanIdx].file

\* analyze_code_quality.py:216: the path no longer exists
ScanMissing ==
    /\ Scanning
    /\ scanIdx' = scanIdx + 1
    /\ UNCHANGED <<directory, yielded, dstats, pc, qroot, poorly_doc_files,
                   qstats, scanned>>
    /\ UNCHANGED pure

\* analyze_code_quality.py:72-76: the read fails, analyze_file returns None
ScanUnreadable ==
    /\ Scanning
    /\ scanIdx' = scanIdx + 1
    /\ UNCHANGED <<directory, yielded, dstats, pc, qroot, poorly_doc_files,
                   qstats, scanned>>
    /\ UNCHANGED pure

\* analyze_code_quality.py:217, 70-199: analyze_file returns its result
ScanFile ==
    /\ Scanning
    /\ LET r == QAnalyzeFile(qstats, CurrentPath, qroot,
                             Facts[KindOfPath(CurrentPath)].scan)
       IN  /\ ~r.raised
           /\ qstats' = r.st
    /\ scanned' = Append(scanned, CurrentPath)
    /\ scanIdx' = scanIdx + 1
    /\ UNCHANGED <<directory, yielded, dstats, pc, qroot, poorly_doc_files>>
    /\ UNCHANGED pure

\* analyze_code_quality.py:105, :168, :195: relative_to raises ValueError,
\* which neither analyze_file nor analyze_from_json catches
ScanFileRaises ==
    /\ Scanning
    /\ LET r == QAnalyzeFile(qstats, CurrentPath, qroot,
                             Facts[KindOfPath(CurrentPath)].scan)
       IN  /\ r.raised
           /\ qstats' = r.st
    /\ scanned' = Append(scanned, CurrentPath)
    /\ pc' = "raised"
    /\ UNCHANGED <<directory, yielded, dstats, qroot, poorly_doc_files, scanIdx>>
    /\ UNCHANGED pure

\* analyze_code_quality.py:211: the list is exhausted
ScanEnd ==
    /\ pc = "scan"
    /\ scanIdx > Len(poorly_doc_files)
    /\ pc' = "done"
    /\ UNCHANGED <<directory, yielded, dstats, qroot, poorly_doc_files, scanIdx,
                   qstats, scanned>>
    /\ UNCHANGED pure

Next ==
    \/ WalkExcluded
    \/ ClassifyUnreadable
    \/ ClassifyFile
    \/ SaveResults
    \/ LoadResults
    \/ ScanMissing
    \/ ScanUnreadable
    \/ ScanFile
    \/ ScanFileRaises
    \/ ScanEnd

Spec == Init /\ [][Next]_vars

(***************************************************************************)
(* CodeQualityAnalyzer.magic_number_pattern on texts, and the comment      *)
(* strip that precedes it.  Positions are 1-based; a match is              *)
(* [start, end] with end the position after its last character.            *)
(***************************************************************************)
Digits == {"0", "1", "2", "3", "4", "5", "6", "7", "8", "9"}

\* [0-9a-fA-F], analyze_code_quality.py:54
HexDigits == Digits \cup {"a", "b", "c", "d", "e", "f", "A", "B", "C", "D", "E", "F"}

Letters ==
    {"a", "b", "c", "d", "e", "f", "g", "h", "i", "j", "k", "l", "m", "n", "o",
     "p", "q", "r", "s", "t", "u", "v", "w", "x", "y", "z",
     "A", "B", "C", "D", "E", "F", "G", "H", "I", "J", "K", "L", "M", "N", "O",
     "P", "Q", "R", "S", "T", "U", "V", "W", "X", "Y", "Z"}

\* [a-zA-Z0-9_], analyze_code_quality.py:52
BehindChars == Letters \cup Digits \cup {"_"}

\* [a-zA-Z0-9_e], analyze_code_quality.py:58
AheadChars == Letters \cup Digits \cup {"_", "e"}

AllIn(text, a, b, S) == \A i \in a..(b - 1) : text[i] \in S

\* (?<![a-zA-Z0-9_]) at position p
LookBehindOk(text, p) == p = 1 \/ text[p - 1] \notin BehindChars

\* (?![a-zA-Z0-9_e]) at position e
LookAheadOk(text, e) == e > Len(text) \/ text[e] \notin AheadChars

MaxOf(S) == CHOOSE x \in S : \A y \in S : y <= x

\* 0x[0-9a-fA-F]+ from p, followed by the lookahead: the ends the
\* backtracking can stop at
HexEnds(text, p) ==
    {e \in (p + 3)..(Len(text) + 1) :
        /\ text[p] = "0" /\ text[p + 1] = "x"
        /\ AllIn(text, p + 2, e, HexDigits)
        /\ LookAheadOk(text, e)}

\* \d{3,}(?:\.\d+)? from p, followed by the lookahead: n integer digits and
\* m fraction digits (m = 0: the optional group is left out)
DecimalChoices(text, p) ==
    {c \in (3..(Len(text) + 1 - p)) \X (0..Len(text)) :
        LET n == c[1]
            m == c[2]
            e == IF m = 0 THEN p + n ELSE p + n + 1 + m
        IN  /\ e <= Len(text) + 1
            /\ AllIn(text, p, p + n, Digits)
            /\ m > 0 => /\ text[p + n] = "."
                        /\ AllIn(text, p + n + 1, e, Digits)
            /\ LookAheadOk(text, e)}

\* \d+\.\d{3,} from p, followed by the lookahead
FractionChoices(text, p) ==
    {c \in (1..(Len(text) + 1 - p)) \X (3..Len(text)) :
        LET n == c[1]
            m == c[2]
            e == p + n + 1 + m
        IN  /\ e <= Len(text) + 1
            /\ AllIn(text, p, p + n, Digits)
            /\ text[p + n] = "."
            /\ AllIn(text, p + n + 1, e, Digits)
            /\ LookAheadOk(text, e)}

\* greedy quantifiers: the longest first repetition, then the longest second
Preferred(choices) ==
    CHOOSE c \in choices :
        \A d \in choices : d[1] < c[1] \/ (d[1] = c[1] /\ d[2] <= c[2])

\* analyze_code_quality.py:51-59: the end of the match starting at p, 0 when
\* the pattern does not match there; the alternatives are tried in order
MagicMatchEnd(text, p) ==
    IF ~LookBehindOk(text, p) THEN 0
    ELSE IF HexEnds(text, p) # {} THEN MaxOf(HexEnds(text, p))
    ELSE IF DecimalChoices(text, p) # {}
    THEN LET c == Preferred(DecimalChoices(text, p))
         IN  IF c[2] = 0 THEN p + c[1] ELSE p + c[1] + 1 + c[2]
    ELSE IF FractionChoices(text, p) # {}
    THEN LET c == Preferred(FractionChoices(text, p))
         IN  p + c[1] + 1 + c[2]
    ELSE 0

\* finditer: the leftmost match from pos on, then on from its end
RECURSIVE MagicMatches(_, _)
MagicMatches(text, pos) ==
    IF pos > Len(text) THEN <<>>
    ELSE LET e == MagicMatchEnd(text, pos)
         IN  IF e = 0 THEN MagicMatches(text, pos + 1)
             ELSE <<[start |-> pos, end |-> e]>> \o MagicMatches(text, e)

\* analyze_code_quality.py:93, magic_number_pattern.findall(code_text)
MagicFindall(text) ==
    LET ms == MagicMatches(text, 1)
    IN  [i \in DOMAIN ms |-> SubSeq(text, ms[i].start, ms[i].end - 1)]

\* first position >= pos where the two-character string ab starts, 0 if none
RECURSIVE Find2(_, _, _, _)
Find2(line, pos, a, b) ==
    IF pos + 1 > Len(line) THEN 0
    ELSE IF line[pos] = a /\ line[pos + 1] = b THEN pos
    ELSE Find2(line, pos + 1, a, b)

\* analyze_code_quality.py:88, re.sub(r'//.*$', '', line)
StripLineComment(line) ==
    LET i == Find2(line, 1, "/", "/")
    IN  IF i = 0 THEN line ELSE SubSeq(line, 1, i - 1)

\* analyze_code_quality.py:89, re.sub(r'/\*.*?\*/', '', line_code): every
\* leftmost '/*' up to the first '*/' after it is removed
RECURSIVE StripBlockComments(_, _)
StripBlockComments(line, pos) ==
    LET i == Find2(line, pos, "/", "*")
        j == IF i = 0 THEN 0 ELSE Find2(line, i + 2, "*", "/")
    IN  IF i = 0 \/ j = 0 THEN SubSeq(line, pos, Len(line))
        ELSE SubSeq(line, pos, i - 1) \o StripBlockComments(line, j + 2)

\* content.split('\n'), analyze_code_quality.py:84
RECURSIVE SplitLines(_, _, _)
SplitLines(content, pos, cur) ==
    IF pos > Len(content) THEN <<cur>>
    ELSE IF content[pos] = "\n" THEN <<cur>> \o SplitLines(content, pos + 1, <<>>)
    ELSE SplitLines(content, pos + 1, Append(cur, content[pos]))

\* '\n'.join(code_only), analyze_code_quality.py:92
RECURSIVE JoinLines(_, _)
JoinLines(lines, n) ==
    IF n = 0 THEN <<>>
    ELSE IF n = 1 THEN lines[1]
    ELSE JoinLines(lines, n - 1) \o <<"\n">> \o lines[n]

\* analyze_code_quality.py:84-92
CodeText(content) ==
    LET lines == SplitLines(content, 1, <<>>)
        code_only == [i \in DOMAIN lines |->
                         StripBlockComments(StripLineComment(lines[i]), 1)]
    IN  JoinLines(code_only, Len(code_only))

\* analyze_code_quality.py:84-96: the literals of a content that count
FilteredMagic(content) == FilterMagic(MagicFindall(CodeText(content)))

(***************************************************************************)
(* Specifications of the per-file functions: the input is drawn by Init,   *)
(* the one action applies the function as analyze_file does.  The          *)
(* pipeline does not run in them.                                          *)
(***************************************************************************)
PipeOff ==
    /\ directory = <<>>
    /\ yielded = [k \in Kinds |-> 0]
    /\ dstats = InitDStats
    /\ pc = "off"
    /\ qroot = <<>>
    /\ poorly_doc_files = <<>>
    /\ scanIdx = 0
    /\ qstats = InitQStats
    /\ scanned = <<>>

\* --- score and category: analyze_docs.py:112-156 on the counts of a file
ScoreInputs ==
    [documented_items : 0..MaxItems, total_items : 0..MaxItems,
     param_count : 0..MaxTag, return_count : 0..MaxTag, brief_count : 0..MaxTag,
     doc_chars : 0..MaxDocChars, code_chars : 0..MaxCodeChars]

InitScore ==
    /\ PipeOff
    /\ fpc = "drawn"
    /\ arg \in {a \in ScoreInputs : a.code_chars = 0 => a.doc_chars = 0}
    /\ out = <<>>

ApplyScore ==
    /\ fpc = "drawn"
    /\ LET doc_ratio == DocRatio(arg.documented_items, arg.total_items)
           quality_score == QualityScore(doc_ratio, arg.param_count, arg.return_count,
                                         arg.brief_count, arg.doc_chars, arg.code_chars)
       IN  out' = [doc_ratio |-> doc_ratio,
                   quality_score |-> quality_score,
                   category |-> Categorize(quality_score)]
    /\ fpc' = "applied"
    /\ UNCHANGED <<arg, pipe>>

NextScore == ApplyScore

SpecScore == InitScore /\ [][NextScore]_vars

\* --- declaration sites and coverage: analyze_docs.py:74-125 on the matches
\* of a file.  Both patterns are anchored at a line start, so the matches of
\* one pattern start on different lines, in increasing order.
RECURSIVE SortedSeq(_)
SortedSeq(S) ==
    IF S = {} THEN <<>>
    ELSE LET m == CHOOSE x \in S : \A y \in S : x <= y
         IN  <<m>> \o SortedSeq(S \ {m})

LineSets(n) == {S \in SUBSET (0..(n - 1)) : Cardinality(S) <= MaxMatches}

MatchNames == {"Run", "if"}

\* the facts of a file of n lines with the markers on the lines ms, the class
\* matches on the lines cs and the callable matches, named nm, on the lines fs
DocInput(n, ms, cs, fs, nm) ==
    [NoDocFacts EXCEPT
        !.nlines = n,
        !.marker_lines = ms,
        !.class_matches = SortedSeq(cs),
        !.function_matches = [i \in 1..Cardinality(fs) |->
                                 [line |-> SortedSeq(fs)[i], name |-> nm[i]]],
        !.code_chars = 20 * n]

InitDoc ==
    /\ PipeOff
    /\ fpc = "drawn"
    /\ \E n \in 1..MaxLines :
          \E ms \in SUBSET (0..(n - 1)), cs \in LineSets(n), fs \in LineSets(n) :
              \E nm \in [1..Cardinality(fs) -> MatchNames] :
                  arg = DocInput(n, ms, cs, fs, nm)
    /\ out = <<>>

ApplyDoc ==
    /\ fpc = "drawn"
    /\ out' = DocResult(PathOf("well", 1), arg)
    /\ fpc' = "applied"
    /\ UNCHANGED <<arg, pipe>>

NextDoc == ApplyDoc

SpecDoc == InitDoc /\ [][NextDoc]_vars

\* --- magic numbers: analyze_code_quality.py:84-96 on the content of a file
MagicAlphabet == {"1", ".", "e"}

MagicSamples ==
    {Txt0xFF, Txt0xff, Txt0xFE, Txt0x00, Txt100, Txt1000, Txt1234, Txt3p14159,
     <<"4", "2">>,
     <<"3", ".", "1", "4">>,
     <<"v", "1", "0", "0", "x">>,
     <<"1", "2", "3", "4", "e", "5">>,
     <<"1", "2", "3", "4", ".", "5", "e", "3">>,
     <<"x", " ", "=", " ", "0", "x", "F", "F", ";", " ", "/", "/", " ", "9", "9", "9">>,
     <<"1", "2", "/", "*", "c", "*", "/", "3", "4", "\n", "0", "x", "F", "E">>}

InitMagic ==
    /\ PipeOff
    /\ fpc = "drawn"
    /\ arg \in SeqsUpTo(MagicAlphabet, MaxLen) \cup MagicSamples
    /\ out = <<>>

ApplyMagic ==
    /\ fpc = "drawn"
    /\ LET code_text == CodeText(arg)
       IN  out' = [code_text |-> code_text,
                   matches |-> MagicMatches(code_text, 1),
                   magic_numbers |-> MagicFindall(code_text),
                   filtered_magic |-> FilterMagic(MagicFindall(code_text))]
    /\ fpc' = "applied"
    /\ UNCHANGED <<arg, pipe>>

NextMagic == ApplyMagic

SpecMagic == InitMagic /\ [][NextMagic]_vars

(***************************************************************************)
(* Properties.                                                             *)
(***************************************************************************)
ByCategory == dstats.files_by_category

\* the analyses of the scanner that returned a result, in order
Completed ==
    IF pc = "raised" THEN SubSeq(scanned, 1, Len(scanned) - 1) ELSE scanned

ScanFactsOf(path) == Facts[KindOfPath(path)].scan

Files(results) == {results[i].file : i \in DOMAIN results}

\* C1: total_files equals the sum of the lengths of the three category
\* lists after any sequence of folded files, and a file whose read fails
\* changes neither total_files nor any category list.
C1_CategorySum ==
    /\ [](dstats.total_files =
            Len(ByCategory.well_documented)
            + Len(ByCategory.partially_documented)
            + Len(ByCategory.poorly_documented))
    /\ [][yielded'["locked"] # yielded["locked"] =>
            /\ dstats'.total_files = dstats.total_files
            /\ dstats'.files_by_category = dstats.files_by_category]_vars

C1_Witness ==
    /\ yielded["locked"] >= 1
    /\ dstats.total_files >= 3
    /\ ByCategory.well_documented # <<>>
    /\ ByCategory.partially_documented # <<>>
    /\ ByCategory.poorly_documented # <<>>

\* C2: the category of a file result is determined by its quality_score:
\* >= 60 well_documented, 25..59 partially_documented, < 25
\* poorly_documented.
C2_CategoryByScore ==
    fpc = "applied" =>
        /\ out.quality_score >= 60 => out.category = "well_documented"
        /\ (out.quality_score >= 25 /\ out.quality_score < 60)
              => out.category = "partially_documented"
        /\ out.quality_score < 25 => out.category = "poorly_documented"

C2_Witness ==
    /\ fpc = "applied"
    /\ out.quality_score = 60
    /\ out.category = "well_documented"

\* the score the claim of C3 prescribes for the counts of a file
C3_Prescribed(a) ==
    (IF a.total_items = 0 THEN 0
     ELSE IF 10 * a.documented_items > 7 * a.total_items THEN 30
     ELSE IF 10 * a.documented_items > 4 * a.total_items THEN 15
     ELSE IF 10 * a.documented_items > 1 * a.total_items THEN 5
     ELSE 0)
    + (IF a.param_count > 0 THEN 20 ELSE 0)
    + (IF a.return_count > 0 THEN 20 ELSE 0)
    + (IF a.brief_count > 0 THEN 15 ELSE 0)
    + (IF a.code_chars > 0 /\ 10 * a.doc_chars > a.code_chars THEN 15 ELSE 0)

\* C3: quality_score is the sum of one ratio bonus (30, 15, 5 or 0 by the
\* strict thresholds 0.7, 0.4, 0.1), 20 for a parameter tag, 20 for a
\* return tag, 15 for a brief tag and 15 for a documentation share above
\* 0.1, each added at most once; it lies in 0..100.
C3_ScoreIsSumOfBonuses ==
    fpc = "applied" =>
        /\ out.quality_score = C3_Prescribed(arg)
        /\ out.quality_score \in 0..100

\* a ratio of exactly 0.1 earns no ratio bonus; every other bonus is earned
C3_Witness ==
    /\ fpc = "applied"
    /\ arg.documented_items = 1
    /\ arg.total_items = 10
    /\ arg.param_count > 0 /\ arg.return_count > 0 /\ arg.brief_count > 0
    /\ out.quality_score = 70

\* C4: in every file result documented_classes <= classes and
\* documented_functions <= functions, so documentation_ratio never
\* exceeds 1.
C4_DocumentedWithinCounted ==
    fpc = "applied" =>
        /\ out.documented_classes <= out.classes
        /\ out.documented_functions <= out.functions
        /\ out.doc_ratio[1] <= out.doc_ratio[2]

\* C5: the scanner analyses a file only if the classifier put it in the
\* poorly_documented partition (quality_score < 25), each such file at
\* most once, and only the analysis of such a file changes the scanner's
\* counters and example lists.
C5_OnlyPoorFilesScanned ==
    /\ [](/\ \A i \in DOMAIN scanned :
                /\ \E j \in DOMAIN ByCategory.poorly_documented :
                      /\ ByCategory.poorly_documented[j].file = scanned[i]
                      /\ ByCategory.poorly_documented[j].quality_score < 25
                /\ scanned[i] \notin Files(ByCategory.well_documented)
                /\ scanned[i] \notin Files(ByCategory.partially_documented)
          /\ \A i, j \in DOMAIN scanned : i # j => scanned[i] # scanned[j])
    /\ [][qstats' # qstats =>
            /\ Len(scanned') = Len(scanned) + 1
            /\ scanned'[Len(scanned')] \in Files(ByCategory.poorly_documented)]_vars

C5_Witness ==
    /\ pc = "done"
    /\ Len(scanned) >= 2
    /\ ByCategory.well_documented # <<>>
    /\ ByCategory.partially_documented # <<>>
    /\ qstats.code_smells.deprecated >= 2

\* C6: for every path handed to the scanner from the poorly_documented
\* list, inside or outside the analyzer's root directory, per-file
\* analysis never raises to the caller.
C6_AnalysisNeverRaises == pc # "raised"

\* C7: the conventional-constant filter removes 100, 1000, 0x00 and 0xff
\* from the flagged list, and 0xFF as well, while 0xFE stays flagged.
C7_ConventionalConstantsFiltered ==
    fpc = "applied" =>
        /\ \A c \in {Txt100, Txt1000, Txt0x00, Txt0xff, Txt0xFF} :
              c \notin Range(out.filtered_magic)
        /\ Txt0xFE \in Range(out.magic_numbers)
              => Txt0xFE \in Range(out.filtered_magic)

\* text[a..b-1] is a scientific-notation literal: digits, an optional
\* fraction, the exponent marker, digits
IsSciLiteral(text, a, b) ==
    \E e \in (a + 1)..(b - 2) :
        /\ text[e] \in {"e", "E"}
        /\ AllIn(text, e + 1, b, Digits)
        /\ \/ AllIn(text, a, e, Digits)
           \/ \E d \in (a + 1)..(e - 2) :
                 /\ text[d] = "."
                 /\ AllIn(text, a, d, Digits)
                 /\ AllIn(text, d + 1, e, Digits)

\* C8: no flagged literal is adjacent to an alphanumeric character or an
\* exponent marker, and no part of a scientific-notation literal is
\* flagged.
C8_NoPartOfLiteralFlagged ==
    fpc = "applied" =>
        \A i \in DOMAIN out.matches :
            LET m == out.matches[i]
                t == out.code_text
            IN  /\ m.start > 1 => t[m.start - 1] \notin BehindChars
                /\ m.end <= Len(t) => t[m.end] \notin AheadChars
                /\ \A a \in 1..Len(t), b \in 1..(Len(t) + 1) :
                      (a < m.end /\ m.start < b) => ~IsSciLiteral(t, a, b)

\* a file qualifies for the example list kept under key
Qualifies(key, path) ==
    LET sf == ScanFactsOf(path)
    IN  CASE key = "magic_numbers" -> Len(FilterMagic(sf.magic_numbers)) >= 5
          [] key = "deprecated" -> sf.deprecated > 0
          [] key = "deep_nesting" -> MaxNesting(sf.braces) > 6
          [] key = "complexity" ->
                ComplexityTier(sf.control_keywords, sf.lines_of_code)
                    \in {"very_complex", "complex"}
          [] key = "age_indicators" -> sf.years # <<>>

\* the files of the first 5 analysed files that qualify, as the lists name
\* them
FirstQualifying(key) ==
    LET q == SelectSeq(Completed, LAMBDA path : Qualifies(key, path))
    IN  [i \in 1..Min2(Len(q), 5) |-> RelativeTo(q[i], qroot)]

FilesOf(examples) == [i \in DOMAIN examples |-> examples[i].file]

\* C9: every example list holds at most 5 entries, they are the first
\* qualifying files in processing order, and a list is only ever appended
\* to, never once it holds 5 entries.
C9_ExamplesFirstFive ==
    /\ [](\A key \in DOMAIN qstats.examples :
             /\ Len(qstats.examples[key]) <= 5
             /\ FilesOf(qstats.examples[key]) = FirstQualifying(key))
    /\ [][\A key \in DOMAIN qstats.examples :
             /\ IsPrefix(qstats.examples[key], qstats'.examples[key])
             /\ Len(qstats.examples[key]) = 5
                   => qstats'.examples[key] = qstats.examples[key]]_vars

\* a sixth qualifying file has been analysed
C9_Witness ==
    /\ Len(qstats.examples.deprecated) = 5
    /\ qstats.code_smells.deprecated = 6
    /\ Len(qstats.examples.deep_nesting) \in 1..4

\* C10: each of the five indicator families (magic numbers, complexity,
\* age indicators, code smells, structural shape flags) has an example
\* list holding the first 5 files that qualify for the family.
C10_EveryFamilyHasExamples ==
    \A key \in {"magic_numbers", "complexity", "age_indicators", "deprecated",
                "deep_nesting"} :
        pc \in {"scan", "done"} =>
            FilesOf(ExamplesOf(qstats, key)) = FirstQualifying(key)


\* the sum of the 'files' counts of the buckets named in mods
RECURSIVE C14_SumFiles(_, _)
C14_SumFiles(module_stats, mods) ==
    IF mods = {} THEN 0
    ELSE LET m == CHOOSE x \in mods : TRUE
         IN  module_stats[m].files + C14_SumFiles(module_stats, mods \ {m})

\* C14: the 'files' counts of all module buckets, 'other' included, add up
\* to total_files, and each bucket counts the folded files of its module,
\* so every folded file is in exactly one bucket.
C14_ModuleFilesSum ==
    /\ C14_SumFiles(dstats.module_stats, DOMAIN dstats.module_stats)
       = dstats.total_files
    /\ \A mod \in DOMAIN dstats.module_stats :
          dstats.module_stats[mod].files
          = Cardinality({r \in UNION {Range(ByCategory[c]) : c \in DOMAIN ByCategory} :
                            ModuleOf(r.file) = mod})

\* files folded into the 'other' bucket and into buckets of modules
C14_Witness ==
    /\ dstats.total_files = MaxFiles
    /\ "other" \in DOMAIN dstats.module_stats
    /\ dstats.module_stats["other"].files >= 2
    /\ "geometry" \in DOMAIN dstats.module_stats
    /\ Cardinality(DOMAIN dstats.module_stats) >= 3

(***************************************************************************)
(* Documentation coverage on the lines of a content.  A line is one of     *)
(*   "blank"      white space only                                         *)
(*   "code"       text that no pattern matches, e.g.  x;                   *)
(*   "doc"        a documentation comment, e.g.  /// text                  *)
(*   "class"      class Foo {};                                            *)
(*   "class_doc"  class Foo {}; ///< text                                  *)
(*   "func"       int  Run(int a);                                         *)
(*   "func_doc"   int  Run(int a); ///< text                               *)
(* lines[i] is the line with index i - 1 of content.split('\n').           *)
(***************************************************************************)
ClassLineKinds == {"class", "class_doc"}
FuncLineKinds == {"func", "func_doc"}

\* analyze_docs.py:95: '/**' in line or '///' in line
HasMarker(line) == line \in {"doc", "class_doc", "func_doc"}

MarkerLines(lines) == {i - 1 : i \in {k \in DOMAIN lines : HasMarker(lines[k])}}

\* analyze_docs.py:45, :46 and :103, :108: both patterns begin with ^\s*, and
\* \s matches a newline, so the match of the declaration on line i begins at
\* the first of the blank lines that directly precede it; line_num is the
\* index of the line holding match.start()
MatchStartLine(lines, i) ==
    (CHOOSE s \in 1..i :
        /\ \A k \in s..(i - 1) : lines[k] = "blank"
        /\ s > 1 => lines[s - 1] # "blank") - 1

\* what the patterns of the classifier find in the lines
CoverFacts(lines) ==
    DocInput(Len(lines), MarkerLines(lines),
             {MatchStartLine(lines, i) : i \in {k \in DOMAIN lines : lines[k] \in ClassLineKinds}},
             {MatchStartLine(lines, i) : i \in {k \in DOMAIN lines : lines[k] \in FuncLineKinds}},
             [i \in 1..Cardinality({k \in DOMAIN lines : lines[k] \in FuncLineKinds}) |-> "Run"])

\* one declaration, the blank lines directly before it, at most one
\* documentation comment elsewhere, code on every other line
InitCover ==
    /\ PipeOff
    /\ fpc = "drawn"
    /\ \E n \in 1..MaxCoverLines :
          \E decl_at \in 1..n, doc_at \in 0..n :
             \E blanks \in 0..(decl_at - 1), decl \in ClassLineKinds \cup FuncLineKinds :
                /\ doc_at \notin (decl_at - blanks)..decl_at
                /\ arg = [lines |-> [i \in 1..n |->
                             IF i = decl_at THEN decl
                             ELSE IF i \in (decl_at - blanks)..(decl_at - 1) THEN "blank"
                             ELSE IF i = doc_at THEN "doc"
                             ELSE "code"]]
    /\ out = <<>>

ApplyCover ==
    /\ fpc = "drawn"
    /\ out' = DocResult(PathOf("well", 1), CoverFacts(arg.lines))
    /\ fpc' = "applied"
    /\ UNCHANGED <<arg, pipe>>

NextCover == ApplyCover

SpecCover == InitCover /\ [][NextCover]_vars

\* the index of the line that holds the declaration
C15_DeclLine ==
    (CHOOSE i \in DOMAIN arg.lines : arg.lines[i] \in ClassLineKinds \cup FuncLineKinds) - 1

\* every line with a documentation-opening marker and the 9 lines after it,
\* clipped at the end of the file
C15_Covered ==
    {j \in 0..(Len(arg.lines) - 1) :
        \E m \in MarkerLines(arg.lines) : m <= j /\ j <= m + 9}

\* C15: the declaration is counted as documented exactly when its line or
\* one of the two lines before it is covered, equivalently exactly when a
\* marker is on one of the 12 lines ending at the declaration's line.
C15_DocumentedIffCovered ==
    fpc = "applied" =>
        LET documented == out.documented_classes + out.documented_functions = 1
        IN  /\ documented <=>
                  \E j \in (C15_DeclLine - 2)..C15_DeclLine : j \in C15_Covered
            /\ documented <=>
                  \E m \in MarkerLines(arg.lines) :
                      C15_DeclLine - 11 <= m /\ m <= C15_DeclLine

\* C17: after any sequence of analyze_file calls the four complexity
\* counters add up to the number of files that changed a scanner counter
\* (every file analyze_file has read changes one: a file that gets as far
\* as the complexity step changes a complexity counter, one that does not
\* has changed the magic-number counters), so a file counted in the
\* magic-number family is counted in one complexity bucket.
C17_ComplexitySumsToFiles ==
    qstats.complexity.very_complex + qstats.complexity.complex
    + qstats.complexity.moderate + qstats.complexity.simple
    = Len(scanned)

(***************************************************************************)
(* Deep nesting: analyze_code_quality.py:179-197 on the braces of a        *)
(* content, for a scanner that has analysed nothing yet.                   *)
(***************************************************************************)
\* analyze_code_quality.py:189-191: the entry appended to result['issues'],
\* as the depth it names
DeepNestingIssue(scan) ==
    IF MaxNesting(scan.braces) > NestingLimit
    THEN <<[issue |-> "Deep nesting detected", depth |-> MaxNesting(scan.braces)]>>
    ELSE <<>>

InitNesting ==
    /\ PipeOff
    /\ fpc = "drawn"
    /\ \E braces \in SeqsUpTo({"{", "}"}, MaxBraces), root \in ScanRoots :
          arg = [braces |-> braces, root |-> root]
    /\ out = <<>>

ApplyNesting ==
    /\ fpc = "drawn"
    /\ LET scan == [NoScanFacts EXCEPT !.braces = arg.braces]
       IN  out' = [step |-> DeepNestingStep(InitQStats, PathOf("poorA", 1),
                                            arg.root, scan),
                   issues |-> DeepNestingIssue(scan)]
    /\ fpc' = "applied"
    /\ UNCHANGED <<arg, pipe>>

NextNesting == ApplyNesting

SpecNesting == InitNesting /\ [][NextNesting]_vars

\* opening minus closing braces among the first n braces
C11_DepthAfter(braces, n) ==
    Cardinality({i \in 1..n : braces[i] = "{"})
    - Cardinality({i \in 1..n : braces[i] = "}"})

\* the largest running depth, 0 before the first brace
C11_MaxDepth(braces) ==
    CHOOSE d \in 0..Len(braces) :
        /\ \E n \in 0..Len(braces) : C11_DepthAfter(braces, n) = d
        /\ \A n \in 0..Len(braces) : C11_DepthAfter(braces, n) <= d

\* C11: the running depth goes up on '{' and down on '}'; the file is
\* flagged (deep_nesting counter + 1, the maximum recorded as its depth)
\* exactly when the maximum exceeds 6: depth 6 never flags, depth 7 flags
\* with recorded depth 7.
C11_DeepNestingFlag ==
    fpc = "applied" =>
        LET d == C11_MaxDepth(arg.braces)
            flagged == out.step.st.code_smells.deep_nesting = 1
        IN  /\ flagged <=> d > 6
            /\ ~flagged => /\ out.step.st = InitQStats
                           /\ out.issues = <<>>
                           /\ ~out.step.raised
            /\ flagged => /\ Len(out.issues) = 1
                          /\ out.issues[1].depth = d
            /\ (flagged /\ ~out.step.raised) =>
                  /\ Len(out.step.st.examples.deep_nesting) = 1
                  /\ out.step.st.examples.deep_nesting[1].depth = d

\* seven braces opened one inside the other, the path below the root
C11_Witness ==
    /\ fpc = "applied"
    /\ arg.braces = Open(7) \o Close(1)
    /\ out.step.st.code_smells.deep_nesting = 1
    /\ out.step.st.examples.deep_nesting = <<[file |-> <<"source", "A1.cc">>, depth |-> 7]>>


(***************************************************************************)
(* Structural complexity: analyze_code_quality.py:110-125 on the keyword   *)
(* and line counts of a content, for a scanner that has analysed nothing.  *)
(***************************************************************************)
InitComplexity ==
    /\ PipeOff
    /\ fpc = "drawn"
    /\ \E control_keywords \in 0..MaxKeywords, lines_of_code \in 0..MaxLoc :
          arg = [control_keywords |-> control_keywords,
                 lines_of_code |-> lines_of_code]
    /\ out = <<>>

ApplyComplexity ==
    /\ fpc = "drawn"
    /\ out' = ComplexityStep(InitQStats,
                  [NoScanFacts EXCEPT !.control_keywords = arg.control_keywords,
                                      !.lines_of_code = arg.lines_of_code])
    /\ fpc' = "applied"
    /\ UNCHANGED <<arg, pipe>>

NextComplexity == ApplyComplexity

SpecComplexity == InitComplexity /\ [][NextComplexity]_vars

\* keywords / max(L / 100, 1) > t, in exact arithmetic
C12_RatioGt(control_keywords, lines_of_code, t) ==
    IF lines_of_code > 100
    THEN 100 * control_keywords > t * lines_of_code
    ELSE control_keywords > t

C12_Tier(control_keywords, lines_of_code) ==
    IF C12_RatioGt(control_keywords, lines_of_code, 15) THEN "very_complex"
    ELSE IF C12_RatioGt(control_keywords, lines_of_code, 10) THEN "complex"
    ELSE IF C12_RatioGt(control_keywords, lines_of_code, 5) THEN "moderate"
    ELSE "simple"

\* C12: the file is counted in the first tier that applies to
\* keywords / max(L / 100, 1) among > 15 very_complex, > 10 complex,
\* > 5 moderate, else simple, and in no other.
C12_TierByRatio ==
    fpc = "applied" =>
        \A tier \in DOMAIN InitQStats.complexity :
            out.complexity[tier] =
                IF tier = C12_Tier(arg.control_keywords, arg.lines_of_code)
                THEN 1 ELSE 0


(***************************************************************************)
(* Both passes over one set of files taken in two orders:                  *)
(* analyze_directory (analyze_docs.py:175-219) over the paths as the walk  *)
(* yields them, then analyze_from_json (analyze_code_quality.py:201-217)   *)
(* over the list the first pass wrote.  Every path exists and is readable. *)
(***************************************************************************)
\* analyze_docs.py:180-219, from the i-th path of the walk on
RECURSIVE AnalyzeDirectory(_, _, _)
AnalyzeDirectory(st, paths, i) ==
    IF i > Len(paths) THEN st
    ELSE AnalyzeDirectory(
             FoldResult(st, paths[i],
                        DocResult(paths[i], Facts[KindOfPath(paths[i])])),
             paths, i + 1)

\* analyze_code_quality.py:211-217, from the i-th entry of the list on; an
\* analyze_file that raises ends the loop
RECURSIVE AnalyzeFromJson(_, _, _, _)
AnalyzeFromJson(st, poorly_documented, i, root) ==
    IF i > Len(poorly_documented) THEN Ok(st)
    ELSE LET filepath == poorly_documented[i].file
             r == QAnalyzeFile(st, filepath, root, Facts[KindOfPath(filepath)].scan)
         IN  IF r.raised THEN r
             ELSE AnalyzeFromJson(r.st, poorly_documented, i + 1, root)

\* both passes over the paths in the given order
BothPasses(paths, root) ==
    LET data == AnalyzeDirectory(InitDStats, paths, 1)
    IN  [docs |-> data,
         quality |-> AnalyzeFromJson(InitQStats, PoorlyDocFiles(data), 1, root)]

\* paths the walk can yield and analyse
OrderPaths ==
    {PathOf(kind, 1) : kind \in {"well", "partial", "poorA", "poorC"}}
    \cup {PathOf("poorA", 2)}

InitOrder ==
    /\ PipeOff
    /\ fpc = "drawn"
    /\ \E n \in 0..MaxOrder :
          \E paths \in [1..n -> OrderPaths] :
             \E p \in Permutations(1..n) :
                \E root \in ScanRoots :
                   /\ \A i, k \in 1..n : paths[i] = paths[k] => i = k
                   /\ arg = [paths |-> paths,
                             reordered |-> [i \in 1..n |-> paths[p[i]]],
                             root |-> root]
    /\ out = <<>>

ApplyOrder ==
    /\ fpc = "drawn"
    /\ out' = [first |-> BothPasses(arg.paths, arg.root),
               second |-> BothPasses(arg.reordered, arg.root)]
    /\ fpc' = "applied"
    /\ UNCHANGED <<arg, pipe>>

NextOrder == ApplyOrder

SpecOrder == InitOrder /\ [][NextOrder]_vars

\* the global counters of the classifier: totals, category counts, modules
C13_DocCounters(st) ==
    [total_files |-> st.total_files,
     total_classes |-> st.total_classes,
     total_functions |-> st.total_functions,
     documented_classes |-> st.documented_classes,
     documented_functions |-> st.documented_functions,
     by_category |-> [c \in DOMAIN st.files_by_category |->
                         Len(st.files_by_category[c])],
     module_stats |-> st.module_stats]

\* the global counters of the scanner: everything but the example lists
C13_QualityCounters(st) ==
    [magic_numbers |-> st.magic_numbers,
     complexity |-> st.complexity,
     age_indicators |-> st.age_indicators,
     code_smells |-> st.code_smells]

\* C13: for one set of files the global counters of both analyzers are the
\* same whatever the order in which the files are folded.
C13_CountersOrderIndependent ==
    fpc = "applied" =>
        /\ C13_DocCounters(out.first.docs) = C13_DocCounters(out.second.docs)
        /\ C13_QualityCounters(out.first.quality.st)
           = C13_QualityCounters(out.second.quality.st)


(***************************************************************************)
(* Age indicators: year_pattern (analyze_code_quality.py:62) over the      *)
(* characters of a content, then analyze_code_quality.py:127-143, for a    *)
(* scanner that has analysed nothing yet.                                  *)
(***************************************************************************)
\* int() of one digit
DigitValue ==
    "0" :> 0 @@ "1" :> 1 @@ "2" :> 2 @@ "3" :> 3 @@ "4" :> 4 @@ "5" :> 5
    @@ "6" :> 6 @@ "7" :> 7 @@ "8" :> 8 @@ "9" :> 9

\* (?:19|20)\d{2} matches at position p
YearMatchesAt(text, p) ==
    /\ p + 3 <= Len(text)
    /\ \/ text[p] = "1" /\ text[p + 1] = "9"
       \/ text[p] = "2" /\ text[p + 1] = "0"
    /\ text[p + 2] \in Digits
    /\ text[p + 3] \in Digits

\* analyze_code_quality.py:128, :130: year_pattern.findall from position p on,
\* each match as int; the search resumes after the end of a match
RECURSIVE YearFindall(_, _)
YearFindall(text, p) ==
    IF p > Len(text) THEN <<>>
    ELSE IF YearMatchesAt(text, p)
    THEN <<1000 * DigitValue[text[p]] + 100 * DigitValue[text[p + 1]]
           + 10 * DigitValue[text[p + 2]] + DigitValue[text[p + 3]]>>
         \o YearFindall(text, p + 4)
    ELSE YearFindall(text, p + 1)

YearAlphabet == {"0", "1", "2", "9", " "}

InitAge ==
    /\ PipeOff
    /\ fpc = "drawn"
    /\ \E text \in SeqsUpTo(YearAlphabet, MaxYearChars) : arg = [text |-> text]
    /\ out = <<>>

ApplyAge ==
    /\ fpc = "drawn"
    /\ out' = AgeStep(InitQStats,
                      [NoScanFacts EXCEPT !.years = YearFindall(arg.text, 1)])
    /\ fpc' = "applied"
    /\ UNCHANGED <<arg, pipe>>

NextAge == ApplyAge

SpecAge == InitAge /\ [][NextAge]_vars

\* the values of the runs of exactly four digits that read 1900..2099
C16_YearTokens(text) ==
    {1000 * DigitValue[text[p]] + 100 * DigitValue[text[p + 1]]
     + 10 * DigitValue[text[p + 2]] + DigitValue[text[p + 3]] :
        p \in {q \in 1..(Len(text) - 3) :
                 /\ \A k \in q..(q + 3) : text[k] \in Digits
                 /\ q > 1 => text[q - 1] \notin Digits
                 /\ q + 4 <= Len(text) => text[q + 4] \notin Digits
                 /\ text[q] \in {"1", "2"}
                 /\ text[q] = "1" => text[q + 1] = "9"
                 /\ text[q] = "2" => text[q + 1] = "0"}}

C16_Tier(year) ==
    IF year < 2010 THEN "very_old"
    ELSE IF year < 2016 THEN "old"
    ELSE IF year < 2021 THEN "recent"
    ELSE "modern"

\* C16: the file increments exactly the age counter chosen by the least of
\* its 4-digit year tokens (< 2010 very_old, < 2016 old, < 2021 recent, else
\* modern) and no age counter when it has no such token; digits inside a
\* longer digit run are no year token.
C16_AgeByOldestYearToken ==
    fpc = "applied" =>
        LET tokens == C16_YearTokens(arg.text)
            oldest == CHOOSE y \in tokens : \A z \in tokens : y <= z
        IN  \A tier \in DOMAIN InitQStats.age_indicators :
                out.age_indicators[tier] =
                    IF tokens # {} /\ tier = C16_Tier(oldest) THEN 1 ELSE 0

====
